---- MODULE Spec2Model ----
(***************************************************************************)
(* Model of go-agentsandbox: the policy compilers of the two backends      *)
(* (linuxSandbox.buildArgs, darwinSandbox.generateProfile) and the         *)
(* execution of one sandboxed command (RunWithStdin) with its watcher      *)
(* goroutine, the context and the child's process group; then New with     *)
(* its path expansion over a small host (SpecNew, SpecExpand), buildEnv    *)
(* (SpecEnv), pathInDenyRead (SpecDenyRead) and MergeConfig (SpecMerge),   *)
(* each under a specification of its own.                                  *)
(*                                                                         *)
(* A Go string is a sequence of atoms.  A path is spelled character by     *)
(* character (<<"/","w","s">> is "/ws") so that strings.HasPrefix and      *)
(* concatenation are computed as the code computes them; a fixed word of   *)
(* the code (a flag such as --bind, a fixed line of the profile) is one    *)
(* atom.                                                                   *)
(***************************************************************************)
EXTENDS Integers, Sequences, FiniteSets, TLC

VARIABLES
    cfg,        \* the Config held by the sandbox instance (s.cfg)
    cmd,        \* the command string of the current call
    args,       \* linuxSandbox: result of the last buildArgs, <<>> before
    profile,    \* darwinSandbox: s.profile as the sequence of written lines
    goos,       \* runtime.GOOS of the run under way, "none" outside a run
    pc,         \* position of the goroutine executing RunWithStdin
    wpc,        \* position of the watcher goroutine (linux.go:63-71)
    ctxDone,    \* the context is cancelled (ctx.Done() closed, ctx.Err() != nil)
    doneClosed, \* close(done) has been executed (linux.go:75)
    procs,      \* the processes of the child's process group
    buf,        \* combined stdout/stderr captured so far
    local,      \* locals of RunWithStdin after Wait: waitErr, exitCode
    ret,        \* (output, exitCode, err) returned by RunWithStdin
    hist,       \* history of the run: what was spawned, signalled, observed
    sys,        \* the host as New sees it: home directory, working directory, files
    environ,    \* os.Environ() of the calling process
    out         \* result of the last call of New or of a helper called on its own

policyVars == <<cfg, cmd, args, profile>>
runVars == <<goos, pc, wpc, ctxDone, doneClosed, procs, buf, local, ret, hist>>
hostVars == <<sys, environ, out>>
vars == <<cfg, cmd, args, profile, goos, pc, wpc, ctxDone, doneClosed, procs, buf, local, ret, hist,
          sys, environ, out>>

(***************************************************************************)
(* Bounds of the model.                                                    *)
(***************************************************************************)
MaxList == 2

(***************************************************************************)
(* Strings.                                                                *)
(***************************************************************************)
W(word) == <<word>>

Separator == <<"/">>

HasPrefix(s, prefix) ==
    /\ Len(prefix) <= Len(s)
    /\ SubSeq(s, 1, Len(prefix)) = prefix

RECURSIVE Join(_, _)
Join(elems, sep) ==
    IF elems = <<>> THEN <<>>
    ELSE IF Len(elems) = 1 THEN elems[1]
    ELSE elems[1] \o sep \o Join(Tail(elems), sep)

RECURSIVE Concat(_)
Concat(elems) ==
    IF elems = <<>> THEN <<>> ELSE elems[1] \o Concat(Tail(elems))

\* fmt's %q for the characters of the model: the string in double quotes,
\* with a backslash before every double quote and backslash.
RECURSIVE Escape(_)
Escape(s) ==
    IF s = <<>> THEN <<>>
    ELSE (IF s[1] \in {"\"", "\\"} THEN <<"\\", s[1]>> ELSE <<s[1]>>) \o Escape(Tail(s))

Quote(s) == <<"\"">> \o Escape(s) \o <<"\"">>

(***************************************************************************)
(* Paths of the model.                                                     *)
(***************************************************************************)
RootPath == <<"/">>
WsPath == <<"/", "w">>
SecretPath == <<"/", "w", "/", "s">>
SiblingPath == <<"/", "w", "s">>
Wildcard == <<"*">>
DevPath == <<"/", "d", "e", "v">>
ProcPath == <<"/", "p", "r", "o", "c">>

PolicyPaths == {WsPath, SecretPath, SiblingPath, RootPath, Wildcard}

Commands == {W("true"), W("exit 3")}

SeqsUpTo(S, n) == UNION {[1..k -> S] : k \in 0..n}

(***************************************************************************)
(* config.go: wildcard.                                                    *)
(***************************************************************************)
IsWildcard(path) == path = Wildcard

HasWildcard(paths) == \E i \in 1..Len(paths) : IsWildcard(paths[i])

(***************************************************************************)
(* pathInDenyRead: path == denied || HasPrefix(path, denied + Separator).  *)
(***************************************************************************)
pathInDenyRead_ExactOnly(path, denyRead) ==
    \E i \in 1..Len(denyRead) : path = denyRead[i]

pathInDenyRead(path, denyRead) ==
    \E i \in 1..Len(denyRead) :
        \/ path = denyRead[i]
        \/ HasPrefix(path, denyRead[i] \o Separator)

(***************************************************************************)
(* linuxSandbox.buildArgs.                                                 *)
(***************************************************************************)
RECURSIVE WritableBinds(_, _)
WritableBinds(allowWrite, denyRead) ==
    IF allowWrite = <<>> THEN <<>>
    ELSE (IF pathInDenyRead(allowWrite[1], denyRead)
          THEN <<>>
          ELSE <<W("--bind"), allowWrite[1], allowWrite[1]>>)
         \o WritableBinds(Tail(allowWrite), denyRead)

RECURSIVE TmpfsOverlays(_)
TmpfsOverlays(denyRead) ==
    IF denyRead = <<>> THEN <<>>
    ELSE <<W("--tmpfs"), denyRead[1]>> \o TmpfsOverlays(Tail(denyRead))

buildArgs_TmpfsFirst(c, command) ==
    <<W("--share-net"), W("--die-with-parent")>>
    \o TmpfsOverlays(c.DenyRead)
    \o <<W("--ro-bind"), RootPath, RootPath>>
    \o WritableBinds(c.AllowWrite, c.DenyRead)
    \o <<W("--dev"), DevPath>>
    \o <<W("--proc"), ProcPath>>
    \o <<W("--chdir"), c.Workdir>>
    \o <<W("sh"), W("-c"), command>>

buildArgs_ChdirBeforeDev(c, command) ==
    <<W("--share-net"), W("--die-with-parent")>>
    \o <<W("--ro-bind"), RootPath, RootPath>>
    \o WritableBinds(c.AllowWrite, c.DenyRead)
    \o TmpfsOverlays(c.DenyRead)
    \o <<W("--chdir"), c.Workdir>>
    \o <<W("--dev"), DevPath>>
    \o <<W("--proc"), ProcPath>>
    \o <<W("sh"), W("-c"), command>>

buildArgs(c, command) ==
    <<W("--share-net"), W("--die-with-parent")>>
    \o <<W("--ro-bind"), RootPath, RootPath>>
    \o WritableBinds(c.AllowWrite, c.DenyRead)
    \o TmpfsOverlays(c.DenyRead)
    \o <<W("--dev"), DevPath>>
    \o <<W("--proc"), ProcPath>>
    \o <<W("--chdir"), c.Workdir>>
    \o <<W("sh"), W("-c"), command>>

BwrapBin == W("/usr/bin/bwrap")

linuxDryRunOutput(argv) == BwrapBin \o W(" ") \o Join(argv, W(" "))

(***************************************************************************)
(* darwinSandbox.generateProfile: the lines written to the builder.        *)
(***************************************************************************)
DenyWriteAll == W("(deny file-write*)\n")
DenyReadAll == W("(deny file-read*)\n")
AllowWriteLine(path) == W("(allow file-write* (subpath ") \o Quote(path) \o W("))\n")
DenyReadLine(path) == W("(deny file-read* (subpath ") \o Quote(path) \o W("))\n")
AllowReadLine(path) == W("(allow file-read* (subpath ") \o Quote(path) \o W("))\n")

ProfileHeader == <<W("(version 1)\n"), W("(allow default)\n"), W("(allow network*)\n")>>

EssentialReadPaths ==
    << <<"/", "u", "s", "r">>,
       <<"/", "b", "i", "n">>,
       <<"/", "s", "b", "i", "n">>,
       <<"/", "v", "a", "r">>,
       <<"/", "p", "r", "i", "v", "a", "t", "e">>,
       DevPath,
       <<"/", "S", "y", "s", "t", "e", "m">>,
       <<"/", "L", "i", "b", "r", "a", "r", "y">> >>

RECURSIVE WriteAllows_NoDenyReadCheck(_, _)
WriteAllows_NoDenyReadCheck(allowWrite, denyRead) ==
    IF allowWrite = <<>> THEN <<>>
    ELSE <<AllowWriteLine(allowWrite[1])>>
         \o WriteAllows_NoDenyReadCheck(Tail(allowWrite), denyRead)

RECURSIVE WriteAllows(_, _)
WriteAllows(allowWrite, denyRead) ==
    IF allowWrite = <<>> THEN <<>>
    ELSE (IF pathInDenyRead(allowWrite[1], denyRead)
          THEN <<>>
          ELSE <<AllowWriteLine(allowWrite[1])>>)
         \o WriteAllows(Tail(allowWrite), denyRead)

WritePolicy_NoWildcardBranch(c) ==
    <<DenyWriteAll>> \o WriteAllows(c.AllowWrite, c.DenyRead)

WritePolicy(c) ==
    IF HasWildcard(c.AllowWrite)
    THEN <<>>
    ELSE <<DenyWriteAll>> \o WriteAllows(c.AllowWrite, c.DenyRead)

ReadPolicy_NoWildcardBranch(c) ==
    [i \in 1..Len(c.DenyRead) |-> DenyReadLine(c.DenyRead[i])]

ReadPolicy(c) ==
    IF HasWildcard(c.DenyRead)
    THEN <<DenyReadAll>> \o [i \in 1..Len(EssentialReadPaths) |-> AllowReadLine(EssentialReadPaths[i])]
    ELSE [i \in 1..Len(c.DenyRead) |-> DenyReadLine(c.DenyRead[i])]

generateProfile(c) == ProfileHeader \o WritePolicy(c) \o ReadPolicy(c)

darwinDryRunOutput(prof, command) ==
    W("sandbox-exec -p '") \o Concat(prof) \o W("' sh -c '") \o command \o W("'")

(***************************************************************************)
(* State of a run before RunWithStdin is called.                           *)
(***************************************************************************)
NoProcs == [leader |-> "none", code |-> 0, child |-> "none", childPipe |-> FALSE]
NoLocal == [waitErr |-> "nil", exitCode |-> 0]
NoRet == [output |-> <<>>, exitCode |-> 0, err |-> "none"]
NoSys == [home |-> TRUE, cwd |-> TRUE, denied |-> <<>>]
NoOut == [fn |-> "none"]
NoHist ==
    [stdin |-> "nil", spawned |-> 0, stdinWired |-> FALSE, watcherStarted |-> FALSE,
     killSent |-> FALSE, killAfterWait |-> FALSE, leaderKilledByCtx |-> FALSE,
     cancelledWhileRunning |-> FALSE, ctxAtWait |-> FALSE, construct |-> "none"]

\* the host is not consulted outside New and buildEnv
HostIdle ==
    /\ sys = NoSys
    /\ environ = <<>>
    /\ out = NoOut

RunIdle ==
    /\ wpc = "none"
    /\ ctxDone = FALSE
    /\ doneClosed = FALSE
    /\ procs = NoProcs
    /\ buf = <<>>
    /\ local = NoLocal
    /\ ret = NoRet
    /\ hist = NoHist

(***************************************************************************)
(* Policy compilation on its own: a backend value built around a Config    *)
(* and its compiler called directly, as linux_test.go and darwin_test.go   *)
(* do (s := &linuxSandbox{cfg: cfg}; s.buildArgs(cmd)).                     *)
(***************************************************************************)
PolicyConfigs ==
    [Workdir : {WsPath},
     AllowWrite : SeqsUpTo(PolicyPaths, MaxList),
     DenyRead : SeqsUpTo(PolicyPaths, MaxList),
     DryRun : {FALSE}]

InitPolicy ==
    /\ cfg \in PolicyConfigs
    /\ cmd = <<>>
    /\ args = <<>>
    /\ profile = <<>>
    /\ goos = "none"
    /\ pc = "idle"
    /\ RunIdle
    /\ HostIdle

CallBuildArgs(command) ==
    /\ goos = "none"
    /\ cmd' = command
    /\ args' = buildArgs(cfg, command)
    /\ UNCHANGED <<cfg, profile>>
    /\ UNCHANGED runVars
    /\ UNCHANGED hostVars

CallGenerateProfile ==
    /\ goos = "none"
    /\ profile = <<>>
    /\ profile' = generateProfile(cfg)
    /\ UNCHANGED <<cfg, cmd, args>>
    /\ UNCHANGED runVars
    /\ UNCHANGED hostVars

NextPolicy ==
    \/ \E command \in Commands : CallBuildArgs(command)
    \/ CallGenerateProfile

SpecPolicy == InitPolicy /\ [][NextPolicy]_vars

(***************************************************************************)
(* One sandboxed command.  Init is a Config handed to New on one platform; *)
(* the backend is constructed, then RunWithStdin is called once with a     *)
(* context that may be cancelled at any moment.                            *)
(***************************************************************************)
ExitCodes == {0, 3}

\* ProcessState.ExitCode() of a process terminated by a signal
SignaledExitCode == 0 - 1

RunConfigs ==
    [Workdir : {WsPath},
     AllowWrite : {<<WsPath>>},
     DenyRead : {<<>>, <<SecretPath>>},
     DryRun : BOOLEAN]

Init ==
    /\ cfg \in RunConfigs
    /\ cmd = <<>>
    /\ args = <<>>
    /\ profile = <<>>
    /\ goos \in {"linux", "darwin"}
    /\ pc = "new"
    /\ RunIdle
    /\ HostIdle

\* newLinux: LookPath and the user-namespace probe may fail
newLinux_NoProbe(found, probeOk) ==
    /\ goos = "linux"
    /\ pc = "new"
    /\ pc' = IF found THEN "idle" ELSE "failed"
    /\ hist' = [hist EXCEPT !.construct = IF ~found THEN "nobwrap"
                                          ELSE IF ~probeOk THEN "probe" ELSE "ok"]
    /\ UNCHANGED <<cfg, cmd, args, profile, goos>>
    /\ UNCHANGED <<wpc, ctxDone, doneClosed, procs, buf, local, ret>>
    /\ UNCHANGED hostVars

\* hist.construct records how the constructor ended: "nobwrap" (LookPath
\* failed), "probe" (testUserNamespace failed), "invalid" (validateProfile
\* failed) or "ok"
newLinux(found, probeOk) ==
    /\ goos = "linux"
    /\ pc = "new"
    /\ pc' = IF found /\ probeOk THEN "idle" ELSE "failed"
    /\ hist' = [hist EXCEPT !.construct = IF ~found THEN "nobwrap"
                                          ELSE IF ~probeOk THEN "probe" ELSE "ok"]
    /\ UNCHANGED <<cfg, cmd, args, profile, goos>>
    /\ UNCHANGED <<wpc, ctxDone, doneClosed, procs, buf, local, ret>>
    /\ UNCHANGED hostVars

\* newDarwin: the profile is generated, then validated
newDarwin(valid) ==
    /\ goos = "darwin"
    /\ pc = "new"
    /\ profile' = IF valid THEN generateProfile(cfg) ELSE <<>>
    /\ pc' = IF valid THEN "idle" ELSE "failed"
    /\ hist' = [hist EXCEPT !.construct = IF valid THEN "ok" ELSE "invalid"]
    /\ UNCHANGED <<cfg, cmd, args, goos>>
    /\ UNCHANGED <<wpc, ctxDone, doneClosed, procs, buf, local, ret>>
    /\ UNCHANGED hostVars

\* the caller's context is cancelled (cancel() or deadline)
Cancel ==
    /\ pc \in {"idle", "wait", "closeDone", "checkCtx", "dwait"}
    /\ ~ctxDone
    /\ ctxDone' = TRUE
    \* a watcher parked in select is woken by the channel that became ready
    /\ wpc' = IF wpc = "blocked" THEN "kill" ELSE wpc
    /\ hist' = [hist EXCEPT !.cancelledWhileRunning =
                    @ \/ (pc \in {"wait", "dwait"} /\ procs.leader = "running")]
    /\ UNCHANGED <<cfg, cmd, args, profile, goos, pc, doneClosed, procs, buf, local, ret>>
    /\ UNCHANGED hostVars

Alive(st) == st = "running"

\* the stdout/stderr pipe of the child is closed once no live process holds it
PipeClosed(p) == ~Alive(p.leader) /\ ~(Alive(p.child) /\ p.childPipe)

\* linux.go:39-59: buildArgs, the dry-run return, Start and the go statement
LinuxRunBegin_StartBeforeDryRun(command, stdin, startOk) ==
    /\ goos = "linux"
    /\ pc = "idle"
    /\ cmd' = command
    /\ args' = buildArgs(cfg, command)
    /\ IF ~startOk
       THEN /\ ret' = [output |-> <<>>, exitCode |-> 0, err |-> "start"]
            /\ pc' = "returned"
            /\ hist' = [hist EXCEPT !.stdin = stdin]
            /\ UNCHANGED <<wpc, procs>>
       ELSE IF cfg.DryRun
       THEN /\ ret' = [output |-> linuxDryRunOutput(args'), exitCode |-> 0, err |-> "nil"]
            /\ pc' = "returned"
            /\ procs' = [procs EXCEPT !.leader = "running"]
            /\ hist' = [hist EXCEPT !.stdin = stdin, !.spawned = @ + 1,
                                    !.stdinWired = (stdin # "nil")]
            /\ UNCHANGED wpc
       ELSE /\ procs' = [procs EXCEPT !.leader = "running"]
            /\ wpc' = "created"
            /\ pc' = "wait"
            /\ hist' = [hist EXCEPT !.stdin = stdin, !.spawned = @ + 1,
                                    !.stdinWired = (stdin # "nil"),
                                    !.watcherStarted = TRUE]
            /\ UNCHANGED ret
    /\ UNCHANGED <<cfg, profile, goos, ctxDone, doneClosed, buf, local>>
    /\ UNCHANGED hostVars

LinuxRunBegin(command, stdin, startOk) ==
    /\ goos = "linux"
    /\ pc = "idle"
    /\ cmd' = command
    /\ args' = buildArgs(cfg, command)
    /\ IF cfg.DryRun
       THEN /\ ret' = [output |-> linuxDryRunOutput(args'), exitCode |-> 0, err |-> "nil"]
            /\ pc' = "returned"
            /\ hist' = [hist EXCEPT !.stdin = stdin]
            /\ UNCHANGED <<wpc, procs>>
       ELSE IF ~startOk
       THEN /\ ret' = [output |-> <<>>, exitCode |-> 0, err |-> "start"]
            /\ pc' = "returned"
            /\ hist' = [hist EXCEPT !.stdin = stdin]
            /\ UNCHANGED <<wpc, procs>>
       ELSE /\ procs' = [procs EXCEPT !.leader = "running"]
            /\ wpc' = "created"
            /\ pc' = "wait"
            /\ hist' = [hist EXCEPT !.stdin = stdin, !.spawned = @ + 1,
                                    !.stdinWired = (stdin # "nil"),
                                    !.watcherStarted = TRUE]
            /\ UNCHANGED ret
    /\ UNCHANGED <<cfg, profile, goos, ctxDone, doneClosed, buf, local>>
    /\ UNCHANGED hostVars

\* what Wait reports for the reaped leader: (waitErr, ExitCode())
WaitErr(p) == IF p.leader = "exited" /\ p.code = 0 THEN "nil" ELSE "exit"
WaitCode(p) == IF p.leader = "killed" THEN SignaledExitCode ELSE p.code

\* linux.go:74: c.Wait() returns once the leader has terminated and the
\* output pipe is closed
LinuxWait ==
    /\ goos = "linux"
    /\ pc = "wait"
    /\ PipeClosed(procs)
    /\ local' = [waitErr |-> WaitErr(procs), exitCode |-> WaitCode(procs)]
    /\ hist' = [hist EXCEPT !.ctxAtWait = ctxDone]
    /\ pc' = "closeDone"
    /\ UNCHANGED <<cfg, cmd, args, profile, goos, wpc, ctxDone, doneClosed, procs, buf, ret>>
    /\ UNCHANGED hostVars

\* linux.go:75: close(done)
LinuxCloseDone ==
    /\ goos = "linux"
    /\ pc = "closeDone"
    /\ doneClosed' = TRUE
    /\ wpc' = IF wpc = "blocked" THEN "exited" ELSE wpc
    /\ pc' = "checkCtx"
    /\ UNCHANGED <<cfg, cmd, args, profile, goos, ctxDone, procs, buf, local, ret, hist>>
    /\ UNCHANGED hostVars

\* linux.go:77-87: the result; ctx.Err() is read here
LinuxReturn_WaitErrFirst ==
    /\ goos = "linux"
    /\ pc = "checkCtx"
    /\ ret' = [output |-> buf, exitCode |-> local.exitCode,
               err |-> IF local.waitErr # "nil" THEN local.waitErr
                       ELSE IF ctxDone THEN "ctx" ELSE "nil"]
    /\ pc' = "returned"
    /\ UNCHANGED <<cfg, cmd, args, profile, goos, wpc, ctxDone, doneClosed, procs, buf, local, hist>>
    /\ UNCHANGED hostVars

LinuxReturn ==
    /\ goos = "linux"
    /\ pc = "checkCtx"
    /\ ret' = [output |-> buf, exitCode |-> local.exitCode,
               err |-> IF ctxDone THEN "ctx" ELSE local.waitErr]
    /\ pc' = "returned"
    /\ UNCHANGED <<cfg, cmd, args, profile, goos, wpc, ctxDone, doneClosed, procs, buf, local, hist>>
    /\ UNCHANGED hostVars

\* linux.go:64-70: the watcher reaches its select; with both channels ready
\* either case may be taken, with none it parks
WatcherSelect(case) ==
    /\ wpc = "created"
    /\ \/ case = "ctx" /\ ctxDone /\ wpc' = "kill"
       \/ case = "done" /\ doneClosed /\ wpc' = "exited"
       \/ case = "park" /\ ~ctxDone /\ ~doneClosed /\ wpc' = "blocked"
    /\ UNCHANGED <<cfg, cmd, args, profile, goos, pc, ctxDone, doneClosed, procs, buf, local, ret, hist>>
    /\ UNCHANGED hostVars

Signal(st) == IF Alive(st) THEN "killed" ELSE st

\* linux.go:66-68: syscall.Kill(-c.Process.Pid, SIGKILL), the whole group
WatcherKill ==
    /\ wpc = "kill"
    /\ procs' = [procs EXCEPT !.leader = Signal(@), !.child = Signal(@)]
    /\ hist' = [hist EXCEPT !.killSent = TRUE,
                            !.killAfterWait = (pc \notin {"wait"})]
    /\ wpc' = "exited"
    /\ UNCHANGED <<cfg, cmd, args, profile, goos, pc, ctxDone, doneClosed, buf, local, ret>>
    /\ UNCHANGED hostVars

\* the sandboxed command: it may write, fork a descendant (same process
\* group; it inherits the output pipe unless it redirects it) and exit
LeaderWrites ==
    /\ Alive(procs.leader)
    /\ buf = <<>>
    /\ buf' = W("out")
    /\ UNCHANGED <<cfg, cmd, args, profile, goos, pc, wpc, ctxDone, doneClosed, procs, local, ret, hist>>
    /\ UNCHANGED hostVars

LeaderForks(pipe) ==
    /\ Alive(procs.leader)
    /\ procs.child = "none"
    /\ procs' = [procs EXCEPT !.child = "running", !.childPipe = pipe]
    /\ UNCHANGED <<cfg, cmd, args, profile, goos, pc, wpc, ctxDone, doneClosed, buf, local, ret, hist>>
    /\ UNCHANGED hostVars

LeaderExits(code) ==
    /\ Alive(procs.leader)
    /\ procs' = [procs EXCEPT !.leader = "exited", !.code = code]
    /\ UNCHANGED <<cfg, cmd, args, profile, goos, pc, wpc, ctxDone, doneClosed, buf, local, ret, hist>>
    /\ UNCHANGED hostVars

ChildExits ==
    /\ Alive(procs.child)
    /\ procs' = [procs EXCEPT !.child = "exited"]
    /\ UNCHANGED <<cfg, cmd, args, profile, goos, pc, wpc, ctxDone, doneClosed, buf, local, ret, hist>>
    /\ UNCHANGED hostVars

\* part_001:33-41: the dry-run return, else CommandContext + CombinedOutput:
\* Start refuses a context that is already done
DarwinRunBegin(command, stdin, startOk) ==
    /\ goos = "darwin"
    /\ pc = "idle"
    /\ cmd' = command
    /\ IF cfg.DryRun
       THEN /\ ret' = [output |-> darwinDryRunOutput(profile, command), exitCode |-> 0, err |-> "nil"]
            /\ pc' = "returned"
            /\ hist' = [hist EXCEPT !.stdin = stdin]
            /\ UNCHANGED procs
       ELSE IF ctxDone \/ ~startOk
       THEN /\ ret' = [output |-> <<>>, exitCode |-> 0, err |-> IF ctxDone THEN "ctx" ELSE "start"]
            /\ pc' = "returned"
            /\ hist' = [hist EXCEPT !.stdin = stdin]
            /\ UNCHANGED procs
       ELSE /\ procs' = [procs EXCEPT !.leader = "running"]
            /\ pc' = "dwait"
            /\ hist' = [hist EXCEPT !.stdin = stdin, !.spawned = @ + 1,
                                    !.stdinWired = (stdin # "nil")]
            /\ UNCHANGED ret
    /\ UNCHANGED <<cfg, args, profile, goos, wpc, ctxDone, doneClosed, buf, local>>
    /\ UNCHANGED hostVars

\* exec.CommandContext: once the context is done the process is killed
\* (os.Process.Kill, the process alone; it also succeeds on a process that
\* has exited and is not reaped yet)
DarwinCtxKill ==
    /\ goos = "darwin"
    /\ pc = "dwait"
    /\ ctxDone
    /\ ~hist.leaderKilledByCtx
    /\ procs' = [procs EXCEPT !.leader = Signal(@)]
    /\ hist' = [hist EXCEPT !.leaderKilledByCtx = TRUE]
    /\ UNCHANGED <<cfg, cmd, args, profile, goos, pc, wpc, ctxDone, doneClosed, buf, local, ret>>
    /\ UNCHANGED hostVars

\* part_001:41-48: CombinedOutput returns; exit code from ProcessState.
\* Wait prefers the process's own error (an ExitError, also for a killed
\* process) and reports the context's error otherwise
DarwinReturn ==
    /\ goos = "darwin"
    /\ pc = "dwait"
    /\ PipeClosed(procs)
    /\ ret' = [output |-> buf, exitCode |-> WaitCode(procs),
               err |-> IF WaitErr(procs) # "nil" THEN WaitErr(procs)
                       ELSE IF hist.leaderKilledByCtx THEN "ctx" ELSE "nil"]
    /\ pc' = "returned"
    /\ UNCHANGED <<cfg, cmd, args, profile, goos, wpc, ctxDone, doneClosed, procs, buf, local, hist>>
    /\ UNCHANGED hostVars

Stdins == {"nil", "reader"}

Next ==
    \/ \E found, probeOk \in BOOLEAN : newLinux(found, probeOk)
    \/ \E valid \in BOOLEAN : newDarwin(valid)
    \/ Cancel
    \/ \E command \in Commands, stdin \in Stdins, startOk \in BOOLEAN :
          LinuxRunBegin(command, stdin, startOk)
    \/ LinuxWait
    \/ LinuxCloseDone
    \/ LinuxReturn
    \/ \E case \in {"ctx", "done", "park"} : WatcherSelect(case)
    \/ WatcherKill
    \/ LeaderWrites
    \/ \E pipe \in BOOLEAN : LeaderForks(pipe)
    \/ \E code \in ExitCodes : LeaderExits(code)
    \/ ChildExits
    \/ \E command \in Commands, stdin \in Stdins, startOk \in BOOLEAN :
          DarwinRunBegin(command, stdin, startOk)
    \/ DarwinCtxKill
    \/ DarwinReturn

Spec == Init /\ [][Next]_vars

\* the Go scheduler runs every runnable goroutine: the steps of RunWithStdin
\* and of its watcher are taken once they stay enabled.  Nothing obliges the
\* context to be cancelled or a process to exit by itself.
SpecFair ==
    /\ Init
    /\ [][Next]_vars
    /\ WF_vars(LinuxWait)
    /\ WF_vars(LinuxCloseDone)
    /\ WF_vars(LinuxReturn)
    /\ WF_vars(\E case \in {"ctx", "done", "park"} : WatcherSelect(case))
    /\ WF_vars(WatcherKill)

(***************************************************************************)
(* What the launchers do with a compiled invocation, as the comments of    *)
(* buildArgs and generateProfile describe it.                              *)
(***************************************************************************)
\* q is dir itself or a path of the subtree rooted at dir
InSubtree(q, dir) ==
    \/ q = dir
    \/ dir = RootPath /\ HasPrefix(q, RootPath)
    \/ HasPrefix(q, dir \o Separator)

\* bwrap performs its mount operations in argument order
RECURSIVE Mounts(_)
Mounts(argv) ==
    IF argv = <<>> THEN <<>>
    ELSE IF argv[1] \in {W("--ro-bind"), W("--bind")}
    THEN <<[kind |-> argv[1][1], target |-> argv[3]]>> \o Mounts(SubSeq(argv, 4, Len(argv)))
    ELSE IF argv[1] \in {W("--tmpfs"), W("--dev"), W("--proc")}
    THEN <<[kind |-> argv[1][1], target |-> argv[2]]>> \o Mounts(SubSeq(argv, 3, Len(argv)))
    ELSE IF argv[1] = W("--chdir")
    THEN Mounts(SubSeq(argv, 3, Len(argv)))
    ELSE IF argv[1] \in {W("--share-net"), W("--die-with-parent")}
    THEN Mounts(Tail(argv))
    ELSE <<>>

\* the mount that decides what the child sees at q: the last one covering q
MountAt(argv, q) ==
    LET m == Mounts(argv)
        cover == {i \in 1..Len(m) : InSubtree(q, m[i].target)}
    IN  IF cover = {} THEN "none"
        ELSE m[CHOOSE i \in cover : \A k \in cover : k <= i].kind

LinuxWritable(argv, q) == MountAt(argv, q) = "--bind"

\* a profile rule that speaks about writing q: "allow", "deny" or "n/a"
WriteRule(line, q) ==
    IF line = W("(allow default)\n") THEN "allow"
    ELSE IF line = DenyWriteAll THEN "deny"
    ELSE IF \E p \in PolicyPaths : line = AllowWriteLine(p) /\ InSubtree(q, p) THEN "allow"
    ELSE "n/a"

\* the sandbox profile language lets the last rule that matches decide
DarwinWritable(prof, q) ==
    LET match == {i \in 1..Len(prof) : WriteRule(prof[i], q) # "n/a"}
    IN  /\ match # {}
        /\ WriteRule(prof[CHOOSE i \in match : \A k \in match : k <= i], q) = "allow"

(***************************************************************************)
(* Vocabulary of the properties.                                           *)
(***************************************************************************)
Range(s) == {s[i] : i \in 1..Len(s)}

Occurrences(a, sub) ==
    {i \in 1..(Len(a) - Len(sub) + 1) : SubSeq(a, i, i + Len(sub) - 1) = sub}

CountIn(list, x) == Cardinality({i \in 1..Len(list) : list[i] = x})

\* the containment of the data model: p is d, or p starts with d followed by
\* the separator
EqualOrUnder(p, d) == p = d \/ HasPrefix(p, d \o <<"/">>)

ClassifiedDenyRead(p) == \E j \in 1..Len(cfg.DenyRead) : EqualOrUnder(p, cfg.DenyRead[j])

IsWriteDeny(line) == line[1] \in {"(deny file-write*)\n", "(deny file-write* (subpath "}
IsWriteAllow(line) == line[1] = "(allow file-write* (subpath "
IsReadDeny(line) == line[1] \in {"(deny file-read*)\n", "(deny file-read* (subpath "}
IsReadAllow(line) == line[1] = "(allow file-read* (subpath "

KeyFile == <<"/", "w", "/", "s", "/", "k">>
ProbePaths == {WsPath, SecretPath, SiblingPath, KeyFile}

\* C1 (as stated): for every allow-write entry p that equals a deny-read
\* entry d or starts with d followed by the separator, buildArgs emits no
\* --bind p p and generateProfile no "allow file-write* subpath p",
\* while d itself is emitted as --tmpfs d and as
\* "deny file-read* subpath d" (the wildcard entry as "deny file-read*").
C1_DenyEntryItselfEmitted ==
    \A i \in 1..Len(cfg.AllowWrite) : \A j \in 1..Len(cfg.DenyRead) :
        LET p == cfg.AllowWrite[i]
            d == cfg.DenyRead[j]
        IN  EqualOrUnder(p, d) =>
              /\ args # <<>> =>
                    /\ Occurrences(args, <<W("--bind"), p, p>>) = {}
                    /\ Occurrences(args, <<W("--tmpfs"), d>>) # {}
              /\ profile # <<>> =>
                    /\ AllowWriteLine(p) \notin Range(profile)
                    /\ IF IsWildcard(d)
                       THEN DenyReadAll \in Range(profile)
                       ELSE DenyReadLine(d) \in Range(profile)

\* C1 (amended): as above, except that when deny-read contains the
\* wildcard generateProfile emits the blanket "deny file-read*" in place
\* of the per-entry "deny file-read* subpath d".
C1_NoWriteAllowForDenyRead ==
    \A i \in 1..Len(cfg.AllowWrite) : \A j \in 1..Len(cfg.DenyRead) :
        LET p == cfg.AllowWrite[i]
            d == cfg.DenyRead[j]
        IN  EqualOrUnder(p, d) =>
              /\ args # <<>> =>
                    /\ Occurrences(args, <<W("--bind"), p, p>>) = {}
                    /\ Occurrences(args, <<W("--tmpfs"), d>>) # {}
              /\ profile # <<>> =>
                    /\ AllowWriteLine(p) \notin Range(profile)
                    /\ IF HasWildcard(cfg.DenyRead)
                       THEN DenyReadAll \in Range(profile)
                       ELSE DenyReadLine(d) \in Range(profile)

C1_Witness ==
    /\ cfg.AllowWrite = <<SecretPath, SiblingPath>>
    /\ cfg.DenyRead = <<WsPath>>
    /\ Occurrences(args, <<W("--bind"), SiblingPath, SiblingPath>>) # {}
    /\ AllowWriteLine(SiblingPath) \in Range(profile)

\* C2: no path q that equals or lies under a deny-read entry is writable
\* under the compiled invocation of either backend, whatever allow-write
\* holds.
C2_DenyReadNeverWritable ==
    \A j \in 1..Len(cfg.DenyRead) : \A q \in ProbePaths :
        (~IsWildcard(cfg.DenyRead[j]) /\ InSubtree(q, cfg.DenyRead[j])) =>
            /\ args # <<>> => ~LinuxWritable(args, q)
            /\ profile # <<>> => ~DarwinWritable(profile, q)

\* the part of C2 that the namespace backend satisfies
C2_LinuxPart ==
    \A j \in 1..Len(cfg.DenyRead) : \A q \in ProbePaths :
        (~IsWildcard(cfg.DenyRead[j]) /\ InSubtree(q, cfg.DenyRead[j])) =>
            (args # <<>> => ~LinuxWritable(args, q))

\* C3: in buildArgs' result --ro-bind / / occurs exactly once, before
\* every --tmpfs d of a deny-read entry d, and every deny-read entry has
\* its --tmpfs directive.
C3_RoBindBeforeTmpfs ==
    args # <<>> =>
        LET ro == Occurrences(args, <<W("--ro-bind"), RootPath, RootPath>>)
        IN  /\ Cardinality(ro) = 1
            /\ \A j \in 1..Len(cfg.DenyRead) :
                 LET t == Occurrences(args, <<W("--tmpfs"), cfg.DenyRead[j]>>)
                 IN  /\ Cardinality(t) = CountIn(cfg.DenyRead, cfg.DenyRead[j])
                     /\ \A r \in ro : \A k \in t : r < k

C3_Witness ==
    /\ args # <<>>
    /\ cfg.DenyRead = <<SecretPath, RootPath>>
    /\ cfg.AllowWrite = <<WsPath>>

\* C9: write policy of generateProfile.  With the wildcard in allow-write
\* the profile has no write-deny and no write-allow directive; otherwise
\* exactly one blanket "deny file-write*", placed before every
\* "allow file-write* subpath p", and these are the allow-write entries
\* not classified deny-read, in allow-write order.
C9_WritePolicy ==
    profile # <<>> =>
        LET denies == SelectSeq(profile, IsWriteDeny)
            allows == SelectSeq(profile, IsWriteAllow)
            kept == SelectSeq(cfg.AllowWrite, LAMBDA p : ~ClassifiedDenyRead(p))
        IN  IF \E i \in 1..Len(cfg.AllowWrite) : cfg.AllowWrite[i] = <<"*">>
            THEN denies = <<>> /\ allows = <<>>
            ELSE /\ denies = <<W("(deny file-write*)\n")>>
                 /\ \A i, k \in 1..Len(profile) :
                        (IsWriteDeny(profile[i]) /\ IsWriteAllow(profile[k])) => i < k
                 /\ allows = [k \in 1..Len(kept) |-> AllowWriteLine(kept[k])]

C9_Witness ==
    /\ profile # <<>>
    /\ cfg.AllowWrite = <<WsPath, SecretPath>>
    /\ cfg.DenyRead = <<SecretPath>>

\* C10: read policy of generateProfile.  With the wildcard in deny-read
\* exactly one blanket "deny file-read*" followed by the read-allow
\* directives of /usr, /bin, /sbin, /var, /private, /dev, /System,
\* /Library and no per-path read-deny; otherwise one
\* "deny file-read* subpath d" per deny-read entry d and no blanket.
C10_OSPaths ==
    << <<"/", "u", "s", "r">>, <<"/", "b", "i", "n">>, <<"/", "s", "b", "i", "n">>,
       <<"/", "v", "a", "r">>, <<"/", "p", "r", "i", "v", "a", "t", "e">>,
       <<"/", "d", "e", "v">>, <<"/", "S", "y", "s", "t", "e", "m">>,
       <<"/", "L", "i", "b", "r", "a", "r", "y">> >>

C10_ReadPolicy ==
    profile # <<>> =>
        LET reads == SelectSeq(profile, LAMBDA l : IsReadDeny(l) \/ IsReadAllow(l))
        IN  IF \E j \in 1..Len(cfg.DenyRead) : cfg.DenyRead[j] = <<"*">>
            THEN reads = <<W("(deny file-read*)\n")>>
                         \o [k \in 1..Len(C10_OSPaths) |-> AllowReadLine(C10_OSPaths[k])]
            ELSE /\ W("(deny file-read*)\n") \notin Range(profile)
                 /\ \A k \in 1..Len(reads) :
                        \E j \in 1..Len(cfg.DenyRead) : reads[k] = DenyReadLine(cfg.DenyRead[j])
                 /\ \A j \in 1..Len(cfg.DenyRead) :
                        CountIn(reads, DenyReadLine(cfg.DenyRead[j]))
                            = CountIn(cfg.DenyRead, cfg.DenyRead[j])

C10_Witness ==
    /\ profile # <<>>
    /\ cfg.DenyRead = <<Wildcard, SecretPath>>

\* C4: on the namespace backend, once the context is cancelled while the
\* started command is running, the kill reaches the whole process group:
\* every process of the group terminates and RunWithStdin returns.
C4_CancelTerminatesGroup ==
    (goos = "linux" /\ hist.cancelledWhileRunning)
        ~> (pc = "returned" /\ ~Alive(procs.leader) /\ ~Alive(procs.child))

\* C5: on the namespace backend, if the context is cancelled by the time
\* Wait has completed, RunWithStdin returns the context's error, never nil
\* and never the wait error, whatever the child's exit was.
C5_CancellationWins ==
    (goos = "linux" /\ pc = "returned" /\ hist.ctxAtWait) => ret.err = "ctx"

C5_Witness ==
    /\ goos = "linux"
    /\ pc = "returned"
    /\ hist.ctxAtWait
    /\ ~hist.killSent
    /\ procs.leader = "exited"
    /\ procs.code = 0
    /\ ret.err = "ctx"

\* C6: a command that runs to completion without cancellation and without
\* launcher failure and exits with a non-zero code k makes RunWithStdin of
\* either backend return exit code k together with a nil error.
C6_NonZeroExitIsNoError ==
    (/\ pc = "returned"
     /\ ~ctxDone
     /\ procs.leader = "exited"
     /\ procs.code # 0)
        => (ret.exitCode = procs.code /\ ret.err = "nil")

\* C7: whenever RunWithStdin returns a non-nil error for a spawn failure or a
\* cancelled run (the context's error, or the error of a child killed by the
\* cancellation), the returned exit code is 0.
C7_InfrastructureErrorHasExitCodeZero ==
    (/\ pc = "returned"
     /\ \/ ret.err = "start"
        \/ ret.err = "ctx"
        \/ ret.err # "nil" /\ procs.leader = "killed")
        => ret.exitCode = 0

\* C8: with Config.DryRun set, RunWithStdin of either backend spawns no
\* process, starts no watcher and wires no stdin; it returns exit code 0, a
\* nil error and the display string of the invocation: the launcher, the
\* compiled arguments or profile, and the command.
C8_DryRunSpawnsNothing ==
    cfg.DryRun =>
        /\ hist.spawned = 0
        /\ ~hist.watcherStarted
        /\ ~hist.stdinWired
        /\ wpc = "none"
        /\ procs.leader = "none"
        /\ pc = "returned" =>
              /\ ret.exitCode = 0
              /\ ret.err = "nil"
              /\ goos = "linux" =>
                    /\ ret.output = <<"/usr/bin/bwrap", " ">> \o Join(args, <<" ">>)
                    /\ args # <<>>
                    /\ args[Len(args)] = cmd
                    /\ Occurrences(args, <<W("--ro-bind"), RootPath, RootPath>>) # {}
              /\ goos = "darwin" =>
                    /\ ret.output = <<"sandbox-exec -p '">> \o Concat(profile)
                                      \o <<"' sh -c '">> \o cmd \o <<"'">>
                    /\ Len(profile) >= 3

C8_Witness ==
    /\ cfg.DryRun
    /\ pc = "returned"
    /\ hist.stdin = "reader"
    /\ cmd = W("exit 3")
    /\ ret.output # <<>>

(***************************************************************************)
(* The host seen by New (sandbox.go): the home directory, the working      *)
(* directory of the process and a small file system.  The directories      *)
(* ExistingDirs exist, LinkPath is a symbolic link to LinkTarget, every    *)
(* other path is missing.  sys.home and sys.cwd say whether os.UserHomeDir *)
(* and os.Getwd succeed; sys.denied is a directory that cannot be          *)
(* searched (lstat of anything below it fails with EACCES), <<>> for none. *)
(***************************************************************************)
HomeDir == <<"/", "h">>
WorkingDir == <<"/", "c">>
MissingPath == <<"/", "n">>
LinkPath == <<"/", "l">>
LinkTarget == SecretPath
LinkChild == <<"/", "l", "/", "n">>
HomeMarker == <<"~", "/">>
HomeRaw == <<"~", "/", "s">>

ExistingDirs == {RootPath, WsPath, SecretPath, HomeDir, WorkingDir}

\* strings.Split(s, "/")
RECURSIVE Split(_)
Split(s) ==
    IF \A i \in 1..Len(s) : s[i] # "/"
    THEN <<s>>
    ELSE LET i == CHOOSE k \in 1..Len(s) : s[k] = "/" /\ \A j \in 1..(k - 1) : s[j] # "/"
         IN <<SubSeq(s, 1, i - 1)>> \o Split(SubSeq(s, i + 1, Len(s)))

\* filepath.Clean of a rooted path: empty and "." components are dropped,
\* ".." removes the component before it (none at the root)
RECURSIVE CleanComponents(_, _)
CleanComponents(comps, acc) ==
    IF comps = <<>> THEN acc
    ELSE IF Head(comps) = <<>> \/ Head(comps) = <<".">>
    THEN CleanComponents(Tail(comps), acc)
    ELSE IF Head(comps) = <<".", ".">>
    THEN CleanComponents(Tail(comps),
                         IF acc = <<>> THEN <<>> ELSE SubSeq(acc, 1, Len(acc) - 1))
    ELSE CleanComponents(Tail(comps), Append(acc, Head(comps)))

Clean(p) ==
    LET comps == CleanComponents(Split(p), <<>>)
    IN IF comps = <<>> THEN RootPath ELSE Separator \o Join(comps, Separator)

IsAbs(p) == p # <<>> /\ p[1] = "/"

\* filepath.Join(home, rest) for the rooted home directory
FilepathJoin(dir, rest) == Clean(dir \o Separator \o rest)

\* filepath.Abs: a rooted path is cleaned, any other is joined to os.Getwd()
Abs(p) ==
    IF IsAbs(p) THEN [path |-> Clean(p), err |-> "nil"]
    ELSE IF ~sys.cwd THEN [path |-> <<>>, err |-> "getwd"]
    ELSE [path |-> FilepathJoin(WorkingDir, p), err |-> "nil"]

\* path lies strictly below dir
Below(path, dir) == HasPrefix(path, dir \o Separator)

\* filepath.EvalSymlinks of a clean rooted path over the file system of the
\* model: the link is followed, then the target is looked up
EvalSymlinks(p) ==
    LET q == IF p = LinkPath \/ Below(p, LinkPath)
             THEN LinkTarget \o SubSeq(p, Len(LinkPath) + 1, Len(p))
             ELSE p
    IN IF sys.denied # <<>> /\ Below(q, sys.denied) THEN [path |-> <<>>, err |-> "EACCES"]
       ELSE IF q \in ExistingDirs THEN [path |-> q, err |-> "nil"]
       ELSE [path |-> <<>>, err |-> "ENOENT"]

expandPathNoResolve(p) ==
    IF HasPrefix(p, HomeMarker)
    THEN IF ~sys.home THEN [path |-> <<>>, err |-> "home"]
         ELSE Abs(FilepathJoin(HomeDir, SubSeq(p, 3, Len(p))))
    ELSE Abs(p)

expandPath_UnresolvedOnAnyError(p) ==
    LET a == expandPathNoResolve(p)
    IN IF a.err # "nil" THEN [path |-> <<>>, err |-> a.err]
       ELSE LET r == EvalSymlinks(a.path)
            IN IF r.err = "nil" THEN r ELSE a

expandPath(p) ==
    LET a == expandPathNoResolve(p)
    IN IF a.err # "nil" THEN [path |-> <<>>, err |-> a.err]
       ELSE LET r == EvalSymlinks(a.path)
            IN IF r.err = "nil" THEN r
               ELSE IF r.err = "ENOENT" THEN a
               ELSE [path |-> <<>>, err |-> r.err]

\* sandbox.go:84-89: the allow-write loop stops at the first error
RECURSIVE expandAllowWrite(_)
expandAllowWrite(list) ==
    IF list = <<>> THEN [list |-> <<>>, err |-> "nil"]
    ELSE LET r == expandPath(Head(list))
             rest == expandAllowWrite(Tail(list))
         IN IF r.err # "nil" THEN [list |-> <<>>, err |-> r.err]
            ELSE [list |-> <<r.path>> \o rest.list, err |-> rest.err]

\* the caller's AllowWrite slice after the loop: cfg.AllowWrite shares its
\* backing array, every assignment cfg.AllowWrite[i], err = expandPath(p)
\* made before the return is seen by the caller, the failed one included
RECURSIVE writtenAllowWrite(_)
writtenAllowWrite(list) ==
    IF list = <<>> THEN <<>>
    ELSE LET r == expandPath(Head(list))
         IN IF r.err # "nil" THEN <<r.path>> \o Tail(list)
            ELSE <<r.path>> \o writtenAllowWrite(Tail(list))

\* sandbox.go:91-99: a deny-read entry that expandPath rejects is replaced by
\* what expandPathNoResolve returns, its error dropped
expandDenyRead(list) ==
    [i \in 1..Len(list) |->
        IF expandPath(list[i]).err = "nil" THEN expandPath(list[i]).path
        ELSE expandPathNoResolve(list[i]).path]

\* validatePaths: os.Stat(cfg.Workdir) fails, a warning is logged
WorkdirWarning(workdir) == EvalSymlinks(workdir).err # "nil"

Platforms == {"linux", "darwin"}

New_WorkdirMustExist ==
    /\ pc = "raw"
    /\ LET wd == expandPath(cfg.Workdir)
           aw == expandAllowWrite(cfg.AllowWrite)
       IN IF wd.err # "nil" \/ WorkdirWarning(wd.path)
          THEN /\ out' = [fn |-> "New", given |-> cfg, err |-> "invalid workdir",
                          warned |-> FALSE, caller |-> cfg]
               /\ pc' = "failed"
               /\ UNCHANGED cfg
          ELSE IF aw.err # "nil"
          THEN /\ out' = [fn |-> "New", given |-> cfg, err |-> "invalid AllowWrite path",
                          warned |-> FALSE,
                          caller |-> [cfg EXCEPT !.AllowWrite = writtenAllowWrite(@)]]
               /\ pc' = "failed"
               /\ UNCHANGED cfg
          ELSE /\ cfg' = [cfg EXCEPT !.Workdir = wd.path,
                                     !.AllowWrite = aw.list,
                                     !.DenyRead = expandDenyRead(cfg.DenyRead)]
               /\ out' = [fn |-> "New", given |-> cfg,
                          err |-> IF goos \in Platforms THEN "nil" ELSE "unsupported platform",
                          warned |-> FALSE,
                          caller |-> [cfg EXCEPT !.AllowWrite = aw.list,
                                                 !.DenyRead = expandDenyRead(@)]]
               /\ pc' = IF goos \in Platforms THEN "new" ELSE "failed"
    /\ UNCHANGED <<cmd, args, profile, goos, sys, environ>>
    /\ UNCHANGED <<wpc, ctxDone, doneClosed, procs, buf, local, ret, hist>>

\* New up to its switch on runtime.GOOS; the constructor the switch calls is
\* the action newLinux or newDarwin, enabled once pc is "new".  out.given is
\* the Config as passed, out.caller the caller's Config after the call: the
\* struct is copied, the arrays behind AllowWrite and DenyRead are not
New ==
    /\ pc = "raw"
    /\ LET wd == expandPath(cfg.Workdir)
           aw == expandAllowWrite(cfg.AllowWrite)
       IN IF wd.err # "nil"
          THEN /\ out' = [fn |-> "New", given |-> cfg, err |-> "invalid workdir",
                          warned |-> FALSE, caller |-> cfg]
               /\ pc' = "failed"
               /\ UNCHANGED cfg
          ELSE IF aw.err # "nil"
          THEN /\ out' = [fn |-> "New", given |-> cfg, err |-> "invalid AllowWrite path",
                          warned |-> FALSE,
                          caller |-> [cfg EXCEPT !.AllowWrite = writtenAllowWrite(@)]]
               /\ pc' = "failed"
               /\ UNCHANGED cfg
          ELSE /\ cfg' = [cfg EXCEPT !.Workdir = wd.path,
                                     !.AllowWrite = aw.list,
                                     !.DenyRead = expandDenyRead(cfg.DenyRead)]
               /\ out' = [fn |-> "New", given |-> cfg,
                          err |-> IF goos \in Platforms THEN "nil" ELSE "unsupported platform",
                          warned |-> WorkdirWarning(wd.path),
                          caller |-> [cfg EXCEPT !.AllowWrite = aw.list,
                                                 !.DenyRead = expandDenyRead(@)]]
               /\ pc' = IF goos \in Platforms THEN "new" ELSE "failed"
    /\ UNCHANGED <<cmd, args, profile, goos, sys, environ>>
    /\ UNCHANGED <<wpc, ctxDone, doneClosed, procs, buf, local, ret, hist>>

\* linuxSandbox.buildArgs called on the instance New returned
NewBuildArgs(command) ==
    /\ goos = "linux"
    /\ pc = "idle"
    /\ args = <<>>
    /\ cmd' = command
    /\ args' = buildArgs(cfg, command)
    /\ UNCHANGED <<cfg, profile, goos, pc, sys, environ, out>>
    /\ UNCHANGED <<wpc, ctxDone, doneClosed, procs, buf, local, ret, hist>>

MaxNewList == 1

NewPaths == {WsPath, SecretPath, MissingPath, LinkPath, LinkChild, HomeRaw, Wildcard}

NewConfigs ==
    [Workdir : {WsPath, MissingPath, HomeRaw},
     AllowWrite : SeqsUpTo(NewPaths, MaxNewList),
     DenyRead : SeqsUpTo(NewPaths, MaxNewList),
     DryRun : {FALSE}]

NewHosts == [home : BOOLEAN, cwd : {TRUE}, denied : {<<>>, WsPath}]

InitNew ==
    /\ cfg \in NewConfigs
    /\ sys \in NewHosts
    /\ goos \in Platforms \cup {"windows"}
    /\ pc = "raw"
    /\ cmd = <<>>
    /\ args = <<>>
    /\ profile = <<>>
    /\ environ = <<>>
    /\ out = NoOut
    /\ RunIdle

NextNew ==
    \/ New
    \/ \E found, probeOk \in BOOLEAN : newLinux(found, probeOk)
    \/ \E valid \in BOOLEAN : newDarwin(valid)
    \/ NewBuildArgs(W("true"))

SpecNew == InitNew /\ [][NextNew]_vars

\* C11: a wildcard entry given to New in AllowWrite or DenyRead is still the
\* wildcard in the Config of the backend New built, and the profile compiled
\* from it takes the wildcard branches: no "deny file-write*" line for an
\* allow-write wildcard, the blanket "deny file-read*" line for a deny-read
\* wildcard.
C11_WildcardSurvivesNew ==
    (out.fn = "New" /\ pc = "idle") =>
        /\ HasWildcard(out.given.AllowWrite) => HasWildcard(cfg.AllowWrite)
        /\ HasWildcard(out.given.DenyRead) => HasWildcard(cfg.DenyRead)
        /\ goos = "darwin" =>
              /\ HasWildcard(out.given.AllowWrite) => DenyWriteAll \notin Range(profile)
              /\ HasWildcard(out.given.DenyRead) => DenyReadAll \in Range(profile)

(***************************************************************************)
(* buildEnv (sandbox.go:152-196).  An entry of the environment is the      *)
(* string key=value: the key is one atom, "=" is an atom, the value is a   *)
(* sequence of atoms that may hold "=" itself.  os.Environ() lists every   *)
(* key once.                                                               *)
(***************************************************************************)
MaxEnv == 3
MaxEnvList == 2

EnvEntry(key, value) == key \o <<"=">> \o value

PATH == W("PATH")
HOME == W("HOME")
USER == W("USER")
TERM == W("TERM")
FOO == W("FOO")
SECRET == W("SECRET")

EssentialEnv == <<PATH, HOME, USER, TERM>>

\* os.LookupEnv: ok
LookupEnvOk(key) == \E i \in 1..Len(environ) : HasPrefix(environ[i], key \o <<"=">>)

\* os.LookupEnv: val
LookupEnvVal(key) ==
    LET e == environ[CHOOSE i \in 1..Len(environ) : HasPrefix(environ[i], key \o <<"=">>)]
    IN SubSeq(e, Len(key) + 2, Len(e))

\* strings.SplitN(e, "=", 2)[0]
SplitKey(e) ==
    IF \A i \in 1..Len(e) : e[i] # "="
    THEN e
    ELSE SubSeq(e, 1, (CHOOSE k \in 1..Len(e) : e[k] = "=" /\ \A j \in 1..(k - 1) : e[j] # "=") - 1)

\* sandbox.go:156-161: the allowlist loop
RECURSIVE appendAllowlist(_, _)
appendAllowlist(env, keys) ==
    IF keys = <<>> THEN env
    ELSE appendAllowlist(IF LookupEnvOk(Head(keys))
                         THEN Append(env, EnvEntry(Head(keys), LookupEnvVal(Head(keys))))
                         ELSE env,
                         Tail(keys))

\* sandbox.go:163-178: the essential variables, each unless already there
RECURSIVE appendEssential(_, _)
appendEssential(env, keys) ==
    IF keys = <<>> THEN env
    ELSE appendEssential(IF /\ LookupEnvOk(Head(keys))
                            /\ ~\E i \in 1..Len(env) : HasPrefix(env[i], Head(keys) \o <<"=">>)
                         THEN Append(env, EnvEntry(Head(keys), LookupEnvVal(Head(keys))))
                         ELSE env,
                         Tail(keys))

\* sandbox.go:182-195: denylist mode
filterDenylist(denylist) ==
    SelectSeq(environ, LAMBDA e : \A i \in 1..Len(denylist) : SplitKey(e) # denylist[i])

buildEnv_NoEssential(c) ==
    IF c.CleanEnv
    THEN appendAllowlist(<<>>, c.EnvAllowlist)
    ELSE filterDenylist(c.EnvDenylist)

buildEnv_DenyWholeEntry(c) ==
    IF c.CleanEnv
    THEN appendEssential(appendAllowlist(<<>>, c.EnvAllowlist), EssentialEnv)
    ELSE SelectSeq(environ, LAMBDA e : \A i \in 1..Len(c.EnvDenylist) : e # c.EnvDenylist[i])

buildEnv(c) ==
    IF c.CleanEnv
    THEN appendEssential(appendAllowlist(<<>>, c.EnvAllowlist), EssentialEnv)
    ELSE filterDenylist(c.EnvDenylist)

\* the variables of the parent process in the model, and the keys a Config names
EnvEntries ==
    {EnvEntry(PATH, W("/bin")), EnvEntry(HOME, W("/h")), EnvEntry(TERM, <<>>),
     EnvEntry(FOO, <<"a", "=", "b">>), EnvEntry(SECRET, W("s3"))}

EnvKeys == {PATH, FOO, SECRET}

ParentEnvs ==
    {e \in SeqsUpTo(EnvEntries, MaxEnv) : \A i, j \in 1..Len(e) : i # j => e[i] # e[j]}

\* the list that the mode does not read holds one key at most
EnvConfigs ==
    {c \in [CleanEnv : BOOLEAN,
            EnvAllowlist : SeqsUpTo(EnvKeys, MaxEnvList),
            EnvDenylist : SeqsUpTo(EnvKeys, MaxEnvList)] :
        Len(IF c.CleanEnv THEN c.EnvDenylist ELSE c.EnvAllowlist) <= 1}

InitEnv ==
    /\ cfg \in EnvConfigs
    /\ environ \in ParentEnvs
    /\ sys = NoSys
    /\ out = NoOut
    /\ cmd = <<>>
    /\ args = <<>>
    /\ profile = <<>>
    /\ goos = "none"
    /\ pc = "idle"
    /\ RunIdle

CallBuildEnv ==
    /\ out.fn = "none"
    /\ out' = [fn |-> "buildEnv", env |-> buildEnv(cfg)]
    /\ UNCHANGED <<cfg, cmd, args, profile, sys, environ>>
    /\ UNCHANGED runVars

NextEnv == CallBuildEnv

SpecEnv == InitEnv /\ [][NextEnv]_vars

\* the keys and values an entry of the model's parent environment can have
AllEnvKeys == {PATH, HOME, USER, TERM, FOO, SECRET}
EnvValues == {W("/bin"), W("/h"), <<>>, <<"a", "=", "b">>, W("s3")}
KeyIsSet(key) == \E v \in EnvValues : EnvEntry(key, v) \in Range(environ)

\* C12: in clean mode the result holds, of the parent's entries, exactly those
\* whose key is in the allowlist or one of PATH, HOME, USER, TERM, each as
\* the parent has it, and nothing else; PATH is there whenever the parent
\* sets it.
C12_CleanEnvContents ==
    (out.fn = "buildEnv" /\ cfg.CleanEnv) =>
        /\ Range(out.env) \subseteq Range(environ)
        /\ \A k \in AllEnvKeys, v \in EnvValues :
              EnvEntry(k, v) \in Range(environ) =>
                 (EnvEntry(k, v) \in Range(out.env)
                    <=> (k \in Range(cfg.EnvAllowlist) \/ k \in Range(EssentialEnv)))
        /\ KeyIsSet(PATH) => \E v \in EnvValues : EnvEntry(PATH, v) \in Range(out.env)

\* PATH comes through an allowlist that does not name it, SECRET is set in
\* the parent and stays out
C12_Witness ==
    /\ out.fn = "buildEnv"
    /\ cfg.CleanEnv
    /\ cfg.EnvAllowlist = <<FOO>>
    /\ KeyIsSet(SECRET)
    /\ EnvEntry(FOO, <<"a", "=", "b">>) \in Range(out.env)
    /\ EnvEntry(PATH, W("/bin")) \in Range(out.env)
    /\ EnvEntry(SECRET, W("s3")) \notin Range(out.env)

\* C13: in denylist mode the result is the parent environment in the
\* parent's order without the entries whose key is in EnvDenylist.
C13_DenylistIsFilteredParent ==
    (out.fn = "buildEnv" /\ ~cfg.CleanEnv) =>
        out.env = SelectSeq(environ,
                            LAMBDA e : ~\E k \in Range(cfg.EnvDenylist), v \in EnvValues :
                                            e = EnvEntry(k, v))

\* a denylisted entry is dropped from between two entries that stay
C13_Witness ==
    /\ out.fn = "buildEnv"
    /\ ~cfg.CleanEnv
    /\ cfg.EnvDenylist = <<SECRET>>
    /\ Len(environ) = 3
    /\ environ[2] = EnvEntry(SECRET, W("s3"))
    /\ out.env = <<environ[1], environ[3]>>

\* C14: in clean mode a key that is in the allowlist and is one of PATH,
\* HOME, USER, TERM has exactly one entry in the result when the parent sets
\* it, whatever the order, length and repetitions of the allowlist.
C14_EssentialKeyOnce ==
    (out.fn = "buildEnv" /\ cfg.CleanEnv) =>
        \A k \in Range(EssentialEnv) \cap Range(cfg.EnvAllowlist) :
            KeyIsSet(k) =>
                Cardinality({i \in 1..Len(out.env) :
                                \E v \in EnvValues : out.env[i] = EnvEntry(k, v)}) = 1

(***************************************************************************)
(* pathInDenyRead called on its own, as TestPathInDenyRead does: a         *)
(* deny-read list and a path.                                              *)
(***************************************************************************)
TrailingPath == <<"/", "w", "/">>

DenyReadEntries == {RootPath, WsPath, TrailingPath, SecretPath, SiblingPath}

CheckedPaths == {RootPath, WsPath, SecretPath, SiblingPath, KeyFile}

InitDenyRead ==
    /\ cfg \in [DenyRead : SeqsUpTo(DenyReadEntries, MaxList)]
    /\ sys = NoSys
    /\ environ = <<>>
    /\ out = NoOut
    /\ cmd = <<>>
    /\ args = <<>>
    /\ profile = <<>>
    /\ goos = "none"
    /\ pc = "idle"
    /\ RunIdle

CallPathInDenyRead(path) ==
    /\ out.fn = "none"
    /\ out' = [fn |-> "pathInDenyRead", path |-> path,
               result |-> pathInDenyRead(path, cfg.DenyRead)]
    /\ UNCHANGED <<cfg, cmd, args, profile, sys, environ>>
    /\ UNCHANGED runVars

NextDenyRead == \E path \in CheckedPaths : CallPathInDenyRead(path)

SpecDenyRead == InitDenyRead /\ [][NextDenyRead]_vars

\* p is the directory the entry d names, or a path of its subtree
UnderEntry(p, d) == InSubtree(p, Clean(d))

\* C15: pathInDenyRead(p, D) is true iff some d in D has p = d or p starting
\* with d followed by the separator; a sibling sharing only a string prefix
\* with an entry is not classified; and every path under an entry is
\* classified, also when the entry is the root directory or ends with a
\* separator.
C15_PathInDenyRead ==
    out.fn = "pathInDenyRead" =>
        /\ out.result <=>
              \E i \in 1..Len(cfg.DenyRead) : EqualOrUnder(out.path, cfg.DenyRead[i])
        /\ (out.path = SiblingPath /\ Range(cfg.DenyRead) \subseteq {WsPath, SecretPath})
              => ~out.result
        /\ (\E i \in 1..Len(cfg.DenyRead) : UnderEntry(out.path, cfg.DenyRead[i]))
              => out.result

(***************************************************************************)
(* expandPath called on its own, as TestExpandPath_* do, on any host.      *)
(***************************************************************************)
RawPaths ==
    NewPaths \cup
    {TrailingPath, HomeMarker, <<"~">>, <<>>, <<"r">>, <<".", "/", "r">>,
     <<"/", "w", "/", ".", ".", "/", "n">>}

ExpandHosts == [home : BOOLEAN, cwd : BOOLEAN, denied : {<<>>, WsPath}]

InitExpand ==
    /\ sys \in ExpandHosts
    /\ cfg = [Workdir |-> <<>>]
    /\ environ = <<>>
    /\ out = NoOut
    /\ cmd = <<>>
    /\ args = <<>>
    /\ profile = <<>>
    /\ goos = "none"
    /\ pc = "idle"
    /\ RunIdle

CallExpandPath(raw) ==
    /\ out.fn = "none"
    /\ out' = [fn |-> "expandPath", raw |-> raw,
               path |-> expandPath(raw).path, err |-> expandPath(raw).err]
    /\ UNCHANGED <<cfg, cmd, args, profile, sys, environ>>
    /\ UNCHANGED runVars

NextExpand == \E raw \in RawPaths : CallExpandPath(raw)

SpecExpand == InitExpand /\ [][NextExpand]_vars

\* C16 (as stated): expandPath fails only for a path that begins with the home marker
\* when the home directory cannot be determined; any other call returns an
\* absolute path: the link's target for the existing symbolic link, the
\* absolute path as it stands for a path that does not exist.
C16_ExpandPathFailsOnlyOnHome ==
    out.fn = "expandPath" =>
        /\ out.err # "nil" => (HasPrefix(out.raw, HomeMarker) /\ ~sys.home)
        /\ out.err = "nil" =>
              /\ IsAbs(out.path)
              /\ out.raw = LinkPath => out.path = LinkTarget
              /\ out.raw = MissingPath => out.path = MissingPath

\* the paths of RawPaths that are neither rooted nor begin with the home marker
IsRelative(raw) == ~IsAbs(raw) /\ ~HasPrefix(raw, HomeMarker)

\* the paths of RawPaths whose resolution has to search the directory WsPath
ResolvedThroughWs == {SecretPath, LinkPath, LinkChild}

\* C16 (amended): expandPath fails in three cases and no other: the path
\* begins with the home marker and the home directory cannot be determined;
\* the path is relative and the working directory cannot be determined;
\* resolving the path meets an error other than not-found (here: a
\* directory that cannot be searched).  Otherwise it returns a clean
\* absolute path: the link's target for the existing symbolic link, the
\* absolute path as it stands for a path that does not exist.
C16_ExpandPathErrors ==
    out.fn = "expandPath" =>
        /\ out.err # "nil" <=>
              \/ HasPrefix(out.raw, HomeMarker) /\ ~sys.home
              \/ IsRelative(out.raw) /\ ~sys.cwd
              \/ out.raw \in ResolvedThroughWs /\ sys.denied = WsPath
        /\ out.err = "nil" =>
              /\ IsAbs(out.path)
              /\ Clean(out.path) = out.path
              /\ out.raw = LinkPath => out.path = LinkTarget
              /\ out.raw = MissingPath => out.path = MissingPath

\* a rooted path below a directory that cannot be searched is rejected
C16_Witness ==
    /\ out.fn = "expandPath"
    /\ out.raw = SecretPath
    /\ sys.denied = WsPath
    /\ out.err = "EACCES"

\* C17 (as stated): a working directory that does not exist makes New fail: no backend
\* is constructed for it and New hands out no instance.
C17_MissingWorkdirFailsNew ==
    (out.fn = "New" /\ out.given.Workdir = MissingPath) =>
        pc # "idle"

\* C17 (amended): a working directory that does not exist is not an error:
\* New logs the warning of validatePaths, keeps the absolute path as it
\* stands and calls the backend constructor, whose success alone decides
\* whether an instance is returned.
C17_MissingWorkdirOnlyWarns ==
    (out.fn = "New" /\ out.given.Workdir = MissingPath) =>
        /\ out.err # "invalid workdir"
        /\ out.err = "nil" => (out.warned /\ cfg.Workdir = MissingPath)
        /\ hist.construct = "ok" => pc = "idle"

C17_Witness ==
    /\ out.fn = "New"
    /\ out.given.Workdir = MissingPath
    /\ out.warned
    /\ hist.construct = "ok"
    /\ pc = "idle"

\* the paths of the Config held by the backend
BackendPaths == {cfg.Workdir} \cup Range(cfg.AllowWrite) \cup Range(cfg.DenyRead)

\* the paths of the Config given to New
GivenPaths ==
    {out.given.Workdir} \cup Range(out.given.AllowWrite) \cup Range(out.given.DenyRead)

\* C18: in the instance New returns, the working directory and every
\* allow-write and deny-read entry are non-empty, absolute and clean; and
\* when the home directory cannot be determined and one of the three fields
\* holds a path that begins with the home marker, New returns no instance.
C18_BackendPathsNormalized ==
    out.fn = "New" =>
        /\ pc = "idle" =>
              \A p \in BackendPaths : p # <<>> /\ IsAbs(p) /\ Clean(p) = p
        /\ (~sys.home /\ \E p \in GivenPaths : HasPrefix(p, HomeMarker)) =>
              pc # "idle"

\* C19: a backend constructor hands out an instance only when the launcher
\* was found and the namespace probe succeeded (newLinux), or the compiled
\* profile passed validation (newDarwin); after a failed constructor there
\* is no instance, and no command is ever started, no result ever returned.
C19_ConstructionAllOrNothing ==
    /\ hist.construct \in {"nobwrap", "probe", "invalid"} =>
          /\ pc = "failed"
          /\ hist.spawned = 0
          /\ ret = NoRet
          /\ cmd = <<>>
    /\ pc \notin {"raw", "new", "failed"} => hist.construct = "ok"
    /\ (hist.spawned > 0 \/ ret # NoRet) => hist.construct = "ok"

\* the probe of newLinux failed and the constructor returned nil
C19_Witness ==
    /\ goos = "linux"
    /\ hist.construct = "probe"
    /\ pc = "failed"

(***************************************************************************)
(* MergeConfig (config.go:46-79).  A pointer is a sequence: <<>> is nil,   *)
(* <<v>> points to v; so the file is <<>> or <<FileConfig>> and            *)
(* FileConfig.CleanEnv is <<>> or <<TRUE>> or <<FALSE>>.                   *)
(***************************************************************************)
MergeConfig_EmptyOverrides(base, file) ==
    IF file = <<>> THEN base
    ELSE [base EXCEPT
            !.AllowWrite = file[1].AllowWrite,
            !.DenyRead = file[1].DenyRead,
            !.CleanEnv = IF file[1].CleanEnv # <<>> THEN file[1].CleanEnv[1] ELSE @,
            !.EnvAllowlist = file[1].EnvAllowlist,
            !.EnvDenylist = file[1].EnvDenylist]

MergeConfig(base, file) ==
    IF file = <<>> THEN base
    ELSE [base EXCEPT
            !.AllowWrite = IF Len(file[1].AllowWrite) > 0 THEN file[1].AllowWrite ELSE @,
            !.DenyRead = IF Len(file[1].DenyRead) > 0 THEN file[1].DenyRead ELSE @,
            !.CleanEnv = IF file[1].CleanEnv # <<>> THEN file[1].CleanEnv[1] ELSE @,
            !.EnvAllowlist = IF Len(file[1].EnvAllowlist) > 0 THEN file[1].EnvAllowlist ELSE @,
            !.EnvDenylist = IF Len(file[1].EnvDenylist) > 0 THEN file[1].EnvDenylist ELSE @]

MergeBases ==
    [Workdir : {WsPath},
     AllowWrite : {<<>>, <<WsPath>>},
     DenyRead : {<<>>, <<SecretPath>>},
     CleanEnv : BOOLEAN,
     EnvAllowlist : {<<>>, <<PATH>>},
     EnvDenylist : {<<>>, <<SECRET>>},
     DryRun : BOOLEAN]

FileConfigs ==
    [AllowWrite : {<<>>, <<RootPath>>},
     DenyRead : {<<>>, <<SiblingPath>>},
     CleanEnv : {<<>>, <<TRUE>>, <<FALSE>>},
     EnvAllowlist : {<<>>, <<FOO>>},
     EnvDenylist : {<<>>, <<FOO>>}]

FilePointers == {<<>>} \cup {<<f>> : f \in FileConfigs}

InitMerge ==
    /\ cfg \in MergeBases
    /\ sys = NoSys
    /\ environ = <<>>
    /\ out = NoOut
    /\ cmd = <<>>
    /\ args = <<>>
    /\ profile = <<>>
    /\ goos = "none"
    /\ pc = "idle"
    /\ RunIdle

\* cfg = MergeConfig(cfg, file), as DefaultConfigWithPath does with the
\* hardcoded defaults
CallMergeConfig(file) ==
    /\ out.fn = "none"
    /\ cfg' = MergeConfig(cfg, file)
    /\ out' = [fn |-> "MergeConfig", base |-> cfg, file |-> file, again |-> FALSE]
    /\ UNCHANGED <<cmd, args, profile, sys, environ>>
    /\ UNCHANGED runVars

\* the same file merged into the result once more
MergeAgain ==
    /\ out.fn = "MergeConfig"
    /\ ~out.again
    /\ cfg' = MergeConfig(cfg, out.file)
    /\ out' = [out EXCEPT !.again = TRUE] @@ [once |-> cfg]
    /\ UNCHANGED <<cmd, args, profile, sys, environ>>
    /\ UNCHANGED runVars

NextMerge ==
    \/ \E file \in FilePointers : CallMergeConfig(file)
    \/ MergeAgain

SpecMerge == InitMerge /\ [][NextMerge]_vars

ListFields == {"AllowWrite", "DenyRead", "EnvAllowlist", "EnvDenylist"}

\* C20: with a nil file the result is base; otherwise each of AllowWrite,
\* DenyRead, EnvAllowlist, EnvDenylist is the file's list when that list is
\* not empty and base's when it is; CleanEnv is the file's value when the
\* file sets it, true or false, and base's otherwise; Workdir and DryRun
\* are base's; merging the same file a second time changes nothing.
C20_MergeConfig ==
    out.fn = "MergeConfig" =>
        /\ out.file = <<>> => cfg = out.base
        /\ out.file # <<>> =>
              /\ \A f \in ListFields :
                    cfg[f] = IF out.file[1][f] # <<>> THEN out.file[1][f] ELSE out.base[f]
              /\ cfg.CleanEnv = IF out.file[1].CleanEnv = <<>> THEN out.base.CleanEnv
                                ELSE out.file[1].CleanEnv[1]
        /\ cfg.Workdir = out.base.Workdir
        /\ cfg.DryRun = out.base.DryRun
        /\ out.again => cfg = out.once

\* a file that sets cleanEnv to false over a base with CleanEnv true, keeps
\* base's allow-write list by leaving its own empty, replaces the deny-read
\* list, and is merged twice
C20_Witness ==
    /\ out.fn = "MergeConfig"
    /\ out.again
    /\ out.file # <<>>
    /\ out.base.CleanEnv
    /\ out.file[1].CleanEnv = <<FALSE>>
    /\ ~cfg.CleanEnv
    /\ out.file[1].AllowWrite = <<>>
    /\ cfg.AllowWrite = <<WsPath>>
    /\ cfg.DenyRead = <<SiblingPath>>
    /\ out.base.DenyRead = <<SecretPath>>

\* the flags of buildArgs that take operands
OperandFlags ==
    {W("--ro-bind"), W("--bind"), W("--tmpfs"), W("--dev"), W("--proc"), W("--chdir")}

\* C21: the result of buildArgs begins with --share-net; after flags without
\* operands come, in this order and with nothing else between them,
\* --ro-bind / /, one --bind p p per allow-write entry not classified
\* deny-read in allow-write order, one --tmpfs d per deny-read entry in
\* deny-read order, --dev /dev, --proc /proc, --chdir workdir, sh -c and the
\* command as the last element.
C21_DirectiveOrder ==
    args # <<>> =>
        LET kept == SelectSeq(cfg.AllowWrite, LAMBDA p : ~ClassifiedDenyRead(p))
            groups ==
                <<W("--ro-bind"), RootPath, RootPath>>
                \o Concat([k \in 1..Len(kept) |-> <<W("--bind"), kept[k], kept[k]>>])
                \o Concat([j \in 1..Len(cfg.DenyRead) |-> <<W("--tmpfs"), cfg.DenyRead[j]>>])
                \o <<W("--dev"), DevPath, W("--proc"), ProcPath>>
                \o <<W("--chdir"), cfg.Workdir>>
                \o <<W("sh"), W("-c"), cmd>>
            start == Len(args) - Len(groups) + 1
        IN  /\ start > 1
            /\ args[1] = W("--share-net")
            /\ SubSeq(args, start, Len(args)) = groups
            /\ \A i \in 1..(start - 1) : args[i] \notin OperandFlags
            /\ args[Len(args)] = cmd

\* one allow-write entry kept, one dropped, two deny-read entries
C21_Witness ==
    /\ args # <<>>
    /\ cmd = W("exit 3")
    /\ cfg.AllowWrite = <<SecretPath, WsPath>>
    /\ cfg.DenyRead = <<SecretPath, SiblingPath>>

\* C22: when allow-write or deny-read holds the wildcard, the result of
\* buildArgs never has the wildcard as the operand of a mount directive:
\* no --bind * * and no --tmpfs *.
C22_NoWildcardOperand ==
    (args # <<>> /\ (HasWildcard(cfg.AllowWrite) \/ HasWildcard(cfg.DenyRead))) =>
        /\ Occurrences(args, <<W("--bind"), Wildcard, Wildcard>>) = {}
        /\ Occurrences(args, <<W("--tmpfs"), Wildcard>>) = {}

\* where a rooted path of the model really leads: the symbolic link among
\* its components replaced by the link's target
RealPath(p) ==
    IF p = LinkPath \/ Below(p, LinkPath)
    THEN LinkTarget \o SubSeq(p, Len(LinkPath) + 1, Len(p))
    ELSE p

\* C23: in the instance New returns, an allow-write entry whose real target
\* equals or lies under the real target of a deny-read entry -- the entry
\* being the symbolic link or a path below it, existing or not -- has no
\* write-allow directive: no "allow file-write* subpath" line in the profile
\* and no --bind in the arguments.
C23_SymlinkedAllowWriteDenied ==
    (out.fn = "New" /\ pc = "idle") =>
        \A i \in 1..Len(out.given.AllowWrite), j \in 1..Len(out.given.DenyRead) :
            (/\ IsAbs(out.given.AllowWrite[i])
             /\ IsAbs(out.given.DenyRead[j])
             /\ EqualOrUnder(RealPath(out.given.AllowWrite[i]), RealPath(out.given.DenyRead[j])))
            => /\ AllowWriteLine(cfg.AllowWrite[i]) \notin Range(profile)
               /\ Occurrences(args, <<W("--bind"), cfg.AllowWrite[i], cfg.AllowWrite[i]>>) = {}

\* C24: for a Config without the wildcard, compiled by both backends, the
\* paths given a --bind are the paths given an "allow file-write* subpath"
\* line, and the paths given a --tmpfs are the paths given a
\* "deny file-read* subpath" line.
C24_BackendsAgree ==
    (/\ args # <<>>
     /\ profile # <<>>
     /\ ~HasWildcard(cfg.AllowWrite)
     /\ ~HasWildcard(cfg.DenyRead)) =>
        /\ {p \in PolicyPaths : Occurrences(args, <<W("--bind"), p, p>>) # {}}
              = {p \in PolicyPaths : AllowWriteLine(p) \in Range(profile)}
        /\ {p \in PolicyPaths : Occurrences(args, <<W("--tmpfs"), p>>) # {}}
              = {p \in PolicyPaths : DenyReadLine(p) \in Range(profile)}
        /\ Cardinality(Occurrences(args, <<W("--bind")>>))
              = Len(SelectSeq(profile, IsWriteAllow))
        /\ Cardinality(Occurrences(args, <<W("--tmpfs")>>))
              = Len(SelectSeq(profile, LAMBDA l : IsReadDeny(l) /\ l # DenyReadAll))

\* both compilers ran on a Config with an allow-write entry that is kept
\* and one that is dropped
C24_Witness ==
    /\ args # <<>>
    /\ profile # <<>>
    /\ cfg.AllowWrite = <<WsPath, SecretPath>>
    /\ cfg.DenyRead = <<SecretPath>>

\* C25: the watcher sends SIGKILL to the process group only while c.Wait()
\* has not returned; once the child is reaped no signal goes to -pid, in
\* every interleaving of the watcher with the wait path.
C25_NoKillAfterWait ==
    ~hist.killAfterWait

\* C26: in the result of buildArgs no --bind, --ro-bind, --dev or --proc
\* whose target equals or lies under a deny-read entry d comes after the
\* --tmpfs d directive.
C26_NothingMountedOverTmpfs ==
    args # <<>> =>
        LET m == Mounts(args)
        IN  \A i, k \in 1..Len(m) :
                (/\ i < k
                 /\ m[i].kind = "--tmpfs"
                 /\ m[k].kind \in {"--bind", "--ro-bind", "--dev", "--proc"})
                => ~InSubtree(m[k].target, m[i].target)

\* C27: after New, with or without error, the caller's AllowWrite and
\* DenyRead lists hold the elements that were passed in.
C27_CallerConfigUnchanged ==
    out.fn = "New" =>
        /\ out.caller.AllowWrite = out.given.AllowWrite
        /\ out.caller.DenyRead = out.given.DenyRead

====
